---- MODULE Spec2Model ----
(***************************************************************************)
(* Model of the Entropy file analysis module (src/EntropyModule.cpp).      *)
(*                                                                         *)
(* The host calls run(pFile) on its threads.  Every thread owns the locals *)
(* of its current invocation of run (byteCounts, totalBytes, buffer,       *)
(* bytesRead, entropy).  The host's TskFile, logger and blackboard are the *)
(* environment: a read returns a positive chunk, zero, a negative value or *)
(* throws; addGenInfoAttribute records the attribute or throws without     *)
(* recording it.  reads, posted, logged and calls record what one          *)
(* invocation of run received from and sent to the host.                   *)
(*                                                                         *)
(* A double is modelled by its exact value: a finite p = c/total is the    *)
(* reduced fraction (IEEE division is correctly rounded, so the double     *)
(* depends on the fraction only), and the running entropy is the sequence  *)
(* of the non-zero terms subtracted from 0.0, or one of NaN, +Inf, -Inf.   *)
(* The sign of a zero is not kept: no comparison in the code tells +0.0    *)
(* from -0.0.                                                              *)
(***************************************************************************)
EXTENDS Integers, Sequences, FiniteSets, TLC

\* ---------------------------------------------------------------- bounds
MaxLen == 3
MaxLenConc == 1
MaxNeg == 1

\* ------------------------------------------------------ program constants
FILE_BUFFER_SIZE == 8193
NULL == 0
NumBins == 256

Threads == {"t1", "t2"}
FileIds == {7, 9}
FileBytes == {65, 200}
Exceptions == {[type |-> "TskException", what |-> "tsk failure"],
               [type |-> "std::exception", what |-> "std failure"]}
NoException == [type |-> "none", what |-> ""]

Bins == 0 .. (NumBins - 1)

VARIABLES
    hostThreads,    \* the threads the host runs the module on
    lenCap,         \* the longest file the host hands to run
    pc,             \* per thread: "idle", "reading", "reduce", "done"
    pFile,          \* per thread: the argument of run
    byteCounts,     \* per thread: long byteCounts[256]
    totalBytes,     \* per thread: long totalBytes
    buffer,         \* per thread: the part of char buffer[] the last read
                    \* of this run filled
    bytesRead,      \* per thread: int bytesRead
    entropy,        \* per thread: double entropy (0.0 until line 90)
    status,         \* per thread: the value run returned, "none" while running
    reads,          \* per thread: the results of the read calls of this run
    posted,         \* per thread: the attributes this run put on the blackboard
    logged,         \* per thread: the messages this run sent to the logger
    calls,          \* per thread: the TskFile methods this run called
    thrown          \* per thread: the exception this run caught

vars == <<hostThreads, lenCap, pc, pFile, byteCounts, totalBytes, buffer,
          bytesRead, entropy, status, reads, posted, logged, calls, thrown>>

\* ------------------------------------------------------------- arithmetic
Min(a, b) == IF a < b THEN a ELSE b
Abs(a) == IF a < 0 THEN -a ELSE a

RECURSIVE Gcd(_, _)
Gcd(a, b) == IF b = 0 THEN a ELSE Gcd(b, a % b)

\* the special doubles and the value 0.0
NaN == [k |-> "nan"]
PInf == [k |-> "pinf"]
NInf == [k |-> "ninf"]
DZero == [k |-> "sum", terms |-> <<>>]

\* (double) a / (double) b for two longs
DDiv(a, b) ==
    IF b = 0
    THEN IF a = 0 THEN NaN ELSE IF a > 0 THEN PInf ELSE NInf
    ELSE IF a = 0 THEN [k |-> "fin", n |-> 0, d |-> 1]
    ELSE LET g == Gcd(Abs(a), Abs(b))
             s == IF (a < 0) = (b < 0) THEN 1 ELSE -1
         IN [k |-> "fin", n |-> s * (Abs(a) \div g), d |-> Abs(b) \div g]

\* a mutant of DGtZero: written as !(p <= 0.0), which a NaN passes
DGtZeroNotLe(p) == ~ (p.k = "ninf" \/ (p.k = "fin" /\ p.n <= 0))

\* a mutant of DGtZero: p >= 0.0
DGtZeroOrEq(p) == p.k = "pinf" \/ (p.k = "fin" /\ p.n >= 0)

\* p > 0.0 (false for a NaN)
DGtZero(p) == p.k = "pinf" \/ (p.k = "fin" /\ p.n > 0)

\* p * (log(p) / log(2.0))
PLog2(p) ==
    CASE p.k = "nan" -> NaN
      [] p.k = "ninf" -> NaN
      [] p.k = "pinf" -> PInf
      [] p.k = "fin" /\ p.n < 0 -> NaN
      [] p.k = "fin" /\ p.n = 0 -> NaN
      [] p.k = "fin" /\ p.n = p.d -> DZero
      [] OTHER -> [k |-> "plog2", n |-> p.n, d |-> p.d]

\* e - t for the running entropy e and a term t
DSub(e, t) ==
    CASE e.k = "nan" \/ t.k = "nan" -> NaN
      [] t.k = "pinf" -> IF e.k = "pinf" THEN NaN ELSE NInf
      [] t.k = "sum" -> e
      [] e.k \in {"pinf", "ninf"} -> e
      [] OTHER -> [k |-> "sum", terms |-> Append(e.terms, <<t.n, t.d>>)]

\* ------------------------------------------------------------ the module
\* the host stores the file's byte b in a char of the buffer
ToChar(b) == IF b >= 128 THEN b - 256 ELSE b

\* a mutant of ToUnsigned8: the char's sign bit is dropped
ToUnsigned8Masked(c) == c % 128

\* unsigned __int8 byte = buffer[i]
ToUnsigned8(c) == c % 256

\* a mutant of Memset0: the counters keep what the previous run left
Memset0Skipped(arr) == arr

\* memset(byteCounts, 0, sizeof(long) * 256)
Memset0(arr) == [i \in DOMAIN arr |-> 0]

\* a mutant of LoopContinues: the loop goes on after a zero return
LoopContinuesOnZero(n) == n >= 0

\* while (bytesRead > 0)
LoopContinues(n) == n > 0

\* for (i = 0; i < bytesRead; i++) { byte = buffer[i]; byteCounts[byte]++; }
RECURSIVE Accumulate(_, _, _, _)
Accumulate(counts, buf, i, n) ==
    IF i >= n THEN counts
    ELSE Accumulate([counts EXCEPT ![ToUnsigned8(buf[i + 1])] = @ + 1],
                    buf, i + 1, n)

\* one iteration of the entropy loop: lines 92-94
EntropyStep(counts, total, i, e) ==
    LET p == DDiv(counts[i], total)
    IN IF DGtZero(p) THEN DSub(e, PLog2(p)) ELSE e

\* for (i = lo; i <= hi; i++) { p = ...; if (p > 0.0) entropy -= ...; }
\* The iterations run in order: the range is halved, and e1 is bound to the
\* entropy after the first half before the second half starts from it.
RECURSIVE EntropyLoop(_, _, _, _, _)
EntropyLoop(counts, total, lo, hi, e) ==
    IF lo > hi THEN e
    ELSE IF lo = hi THEN EntropyStep(counts, total, lo, e)
    ELSE LET mid == (lo + hi) \div 2
         IN CHOOSE r \in {EntropyLoop(counts, total, mid + 1, hi, e1) :
                            e1 \in {EntropyLoop(counts, total, lo, mid, e)}} :
                TRUE

\* double entropy = 0.0; for (int i = 0; i < 256; i++) ...: lines 90-95
Entropy(counts, total) == EntropyLoop(counts, total, 0, NumBins - 1, DZero)

\* a mutant of NullMsg: the guard returns without logging
NullMsgMissing == <<>>

\* LOGERROR(L"Entropy module passed NULL file pointer.")
NullMsg == << <<"Entropy module passed NULL file pointer.">> >>

\* a mutant of ErrorMsg: the message leaves the file id out
ErrorMsgNoId(id, ex) == <<"Entropy module - Error processing file", ex.what>>

\* msg << L"... file id " << pFile->getId() << L" : " << ex.what()
ErrorMsg(id, ex) ==
    <<"Entropy module - Error processing file id ", ToString(id), " : ",
      ex.what>>

\* a mutant of CatchReturn: the handler falls through to the final return
CatchReturnFallsThrough == "OK"

\* the return of both catch handlers
CatchReturn == "FAIL"

NoCalls == [read |-> 0, getId |-> 0, addGenInfoAttribute |-> 0]

\* the bytes the reads of a run delivered so far
RECURSIVE Delivered(_)
Delivered(rs) ==
    IF rs = <<>> THEN <<>>
    ELSE Delivered(SubSeq(rs, 1, Len(rs) - 1)) \o rs[Len(rs)].data

Init ==
    /\ \/ hostThreads = {"t1"} /\ lenCap = MaxLen
       \/ hostThreads = Threads /\ lenCap = MaxLenConc
    /\ pc = [t \in Threads |-> "idle"]
    /\ pFile = [t \in Threads |-> NULL]
    /\ byteCounts = [t \in Threads |-> [i \in Bins |-> 0]]
    /\ totalBytes = [t \in Threads |-> 0]
    /\ buffer = [t \in Threads |-> <<>>]
    /\ bytesRead = [t \in Threads |-> 0]
    /\ entropy = [t \in Threads |-> DZero]
    /\ status = [t \in Threads |-> "none"]
    /\ reads = [t \in Threads |-> <<>>]
    /\ posted = [t \in Threads |-> <<>>]
    /\ logged = [t \in Threads |-> <<>>]
    /\ calls = [t \in Threads |-> NoCalls]
    /\ thrown = [t \in Threads |-> NoException]

InitOne == Init /\ hostThreads = {"t1"}
InitConc == Init /\ hostThreads = Threads

\* run(NULL): lines 63-67.  The locals of lines 71-76 and 90 are never
\* created; the model leaves their initial values in their place.
CallNull(t) ==
    /\ t \in hostThreads
    /\ pc[t] \in {"idle", "done"}
    /\ pFile' = [pFile EXCEPT ![t] = NULL]
    /\ logged' = [logged EXCEPT ![t] = NullMsg]
    /\ status' = [status EXCEPT ![t] = "FAIL"]
    /\ pc' = [pc EXCEPT ![t] = "done"]
    /\ reads' = [reads EXCEPT ![t] = <<>>]
    /\ posted' = [posted EXCEPT ![t] = <<>>]
    /\ calls' = [calls EXCEPT ![t] = NoCalls]
    /\ byteCounts' = [byteCounts EXCEPT ![t] = [i \in Bins |-> 0]]
    /\ totalBytes' = [totalBytes EXCEPT ![t] = 0]
    /\ buffer' = [buffer EXCEPT ![t] = <<>>]
    /\ bytesRead' = [bytesRead EXCEPT ![t] = 0]
    /\ entropy' = [entropy EXCEPT ![t] = DZero]
    /\ thrown' = [thrown EXCEPT ![t] = NoException]
    /\ UNCHANGED <<hostThreads, lenCap>>

\* run(f) with a file no other running thread holds: lines 63, 71-76
CallFile(t, f) ==
    /\ t \in hostThreads
    /\ pc[t] \in {"idle", "done"}
    /\ f \in FileIds
    /\ \A u \in Threads \ {t} :
          pc[u] \in {"reading", "reduce"} => pFile[u] # f
    /\ pFile' = [pFile EXCEPT ![t] = f]
    /\ byteCounts' = [byteCounts EXCEPT ![t] = Memset0(@)]
    /\ totalBytes' = [totalBytes EXCEPT ![t] = 0]
    /\ bytesRead' = [bytesRead EXCEPT ![t] = 0]
    /\ status' = [status EXCEPT ![t] = "none"]
    /\ pc' = [pc EXCEPT ![t] = "reading"]
    /\ reads' = [reads EXCEPT ![t] = <<>>]
    /\ posted' = [posted EXCEPT ![t] = <<>>]
    /\ logged' = [logged EXCEPT ![t] = <<>>]
    /\ calls' = [calls EXCEPT ![t] = NoCalls]
    /\ buffer' = [buffer EXCEPT ![t] = <<>>]
    /\ entropy' = [entropy EXCEPT ![t] = DZero]
    /\ thrown' = [thrown EXCEPT ![t] = NoException]
    /\ UNCHANGED <<hostThreads, lenCap>>

\* one iteration of the do-while whose read returns n and filled data:
\* lines 81-88
ReadReturns(t, n, data) ==
    /\ pc[t] = "reading"
    /\ LET buf == [i \in 1 .. Len(data) |-> ToChar(data[i])]
       IN /\ buffer' = [buffer EXCEPT ![t] = buf]
          /\ bytesRead' = [bytesRead EXCEPT ![t] = n]
          /\ byteCounts' = [byteCounts EXCEPT ![t] = Accumulate(@, buf, 0, n)]
          /\ totalBytes' = [totalBytes EXCEPT ![t] = @ + n]
    /\ pc' = [pc EXCEPT ![t] = IF LoopContinues(n) THEN "reading" ELSE "reduce"]
    /\ reads' = [reads EXCEPT ![t] =
                    Append(@, [ret |-> n, data |-> data, ex |-> NoException])]
    /\ calls' = [calls EXCEPT ![t].read = @ + 1]
    /\ UNCHANGED <<hostThreads, lenCap, pFile, entropy, status, posted, logged,
                   thrown>>

\* the read delivers k more bytes of the file
ReadChunk(t) ==
    \E k \in 1 .. Min(FILE_BUFFER_SIZE, lenCap - Len(Delivered(reads[t]))) :
        \E data \in [1 .. k -> FileBytes] : ReadReturns(t, k, data)

\* the read returns zero
ReadZero(t) == ReadReturns(t, 0, <<>>)

\* the read returns a negative value
ReadNegative(t) == \E n \in (0 - MaxNeg) .. -1 : ReadReturns(t, n, <<>>)

\* the catch handlers: lines 100-113
Catch(t, ex) ==
    /\ logged' = [logged EXCEPT ![t] = Append(@, ErrorMsg(pFile[t], ex))]
    /\ status' = [status EXCEPT ![t] = CatchReturn]
    /\ pc' = [pc EXCEPT ![t] = "done"]
    /\ thrown' = [thrown EXCEPT ![t] = ex]

\* the read throws: lines 81-82, then the handler
ReadThrows(t) ==
    /\ pc[t] = "reading"
    /\ \E ex \in Exceptions :
        /\ Catch(t, ex)
        /\ reads' = [reads EXCEPT ![t] =
                        Append(@, [ret |-> 0, data |-> <<>>, ex |-> ex])]
    /\ buffer' = [buffer EXCEPT ![t] = <<>>]
    /\ calls' = [calls EXCEPT ![t].read = @ + 1, ![t].getId = @ + 1]
    /\ UNCHANGED <<hostThreads, lenCap, pFile, byteCounts, totalBytes,
                   bytesRead, entropy, posted>>

\* the entropy is computed and the attribute is posted: lines 90-98, 114
PostReturns(t) ==
    /\ pc[t] = "reduce"
    /\ LET e == Entropy(byteCounts[t], totalBytes[t])
       IN /\ entropy' = [entropy EXCEPT ![t] = e]
          /\ posted' = [posted EXCEPT ![t] = Append(@, e)]
    /\ status' = [status EXCEPT ![t] = "OK"]
    /\ pc' = [pc EXCEPT ![t] = "done"]
    /\ calls' = [calls EXCEPT ![t].addGenInfoAttribute = @ + 1]
    /\ UNCHANGED <<hostThreads, lenCap, pFile, byteCounts, totalBytes, buffer,
                   bytesRead, reads, logged, thrown>>

\* the entropy is computed and addGenInfoAttribute throws: lines 90-98,
\* then the handler
PostThrows(t) ==
    /\ pc[t] = "reduce"
    /\ entropy' = [entropy EXCEPT ![t] =
                      Entropy(byteCounts[t], totalBytes[t])]
    /\ \E ex \in Exceptions : Catch(t, ex)
    /\ calls' = [calls EXCEPT ![t].addGenInfoAttribute = @ + 1,
                              ![t].getId = @ + 1]
    /\ UNCHANGED <<hostThreads, lenCap, pFile, byteCounts, totalBytes, buffer,
                   bytesRead, reads, posted>>

Next ==
    \E t \in Threads :
        \/ CallNull(t)
        \/ \E f \in FileIds : CallFile(t, f)
        \/ ReadChunk(t)
        \/ ReadZero(t)
        \/ ReadNegative(t)
        \/ ReadThrows(t)
        \/ PostReturns(t)
        \/ PostThrows(t)

Spec == InitOne /\ [][Next]_vars
SpecConc == InitConc /\ [][Next]_vars

\* run is straight-line code: once called, every step of it is taken
RunStep(t) ==
    \/ ReadChunk(t) \/ ReadZero(t) \/ ReadNegative(t) \/ ReadThrows(t)
    \/ PostReturns(t) \/ PostThrows(t)

FairSpec == Spec /\ \A t \in Threads : WF_vars(RunStep(t))

\* ------------------------------------------------------------ properties
Done(t) == t \in hostThreads /\ pc[t] = "done"
Ran(t) == Done(t) /\ pFile[t] # NULL

\* the read results of a run
ReturnedZero(r) == r.ex = NoException /\ r.ret = 0
ReturnedNegative(r) == r.ex = NoException /\ r.ret < 0
ReturnedChunk(r) == r.ex = NoException /\ r.ret > 0
Threw(r) == r.ex # NoException

LastRead(t) == reads[t][Len(reads[t])]

\* the read loop of t ended on a zero return
LoopEndedOnZero(t) ==
    /\ t \in hostThreads
    /\ pFile[t] # NULL
    /\ pc[t] \in {"reduce", "done"}
    /\ reads[t] # <<>>
    /\ ReturnedZero(LastRead(t))

ReadThrew(t) == reads[t] # <<>> /\ Threw(LastRead(t))
PostThrew(t) == calls[t].addGenInfoAttribute > Len(posted[t])

\* the number of occurrences of the byte b in a file
Occurrences(b, bytes) == Cardinality({i \in 1 .. Len(bytes) : bytes[i] = b})

RECURSIVE SumRange(_, _, _)
SumRange(counts, lo, hi) ==
    IF lo > hi THEN 0
    ELSE IF lo = hi THEN counts[lo]
    ELSE LET mid == (lo + hi) \div 2
         IN SumRange(counts, lo, mid) + SumRange(counts, mid + 1, hi)

SumCounts(counts) == SumRange(counts, 0, NumBins - 1)

\* the entropy as the specification defines it: from 0.0, the terms
\* p_i * log2(p_i) of the bins with c_i > 0, in the order of the bins
RECURSIVE SpecEntropyOver(_, _, _, _)
SpecEntropyOver(S, counts, total, acc) ==
    IF S = {} THEN acc
    ELSE LET i == CHOOSE x \in S : \A y \in S : x <= y
         IN SpecEntropyOver(S \ {i}, counts, total,
                            DSub(acc, PLog2(DDiv(counts[i], total))))

SpecEntropy(counts, total) ==
    SpecEntropyOver({i \in Bins : counts[i] > 0}, counts, total, DZero)

\* C1: a run that returned OK posted exactly one attribute, a run that
\* returned FAIL posted none, and no run ever posts more than one.
C1_OneAttributePerOK ==
    \A t \in hostThreads :
        /\ Len(posted[t]) <= 1
        /\ (pc[t] = "done" /\ status[t] = "OK") => Len(posted[t]) = 1
        /\ (pc[t] = "done" /\ status[t] = "FAIL") => Len(posted[t]) = 0
        /\ ReadThrew(t) => posted[t] = <<>>

C1_Witness ==
    \E t \in hostThreads :
        /\ Ran(t) /\ status[t] = "OK" /\ Len(posted[t]) = 1
        /\ Len(reads[t]) >= 3

\* C2: a run that returned OK with totalBytes >= 1 posted the entropy of
\* its final histogram, the sum from 0.0 over the bins with a positive
\* counter of -p*log2(p) with p = counter/totalBytes; a histogram with a
\* single bin holding all of totalBytes gives exactly 0.0.
C2_PostedIsEntropy ==
    \A t \in hostThreads :
        (Ran(t) /\ status[t] = "OK" /\ totalBytes[t] >= 1) =>
            /\ posted[t] = <<SpecEntropy(byteCounts[t], totalBytes[t])>>
            /\ (\E c \in Bins : byteCounts[t][c] = totalBytes[t]
                                /\ SumCounts(byteCounts[t]) = totalBytes[t])
                  => posted[t] = <<DZero>>

C2_Witness ==
    \E t \in hostThreads :
        /\ Ran(t) /\ status[t] = "OK" /\ totalBytes[t] = 2
        /\ byteCounts[t][65] = 1 /\ byteCounts[t][200] = 1
        /\ posted[t] = <<[k |-> "sum", terms |-> << <<1, 2>>, <<1, 2>> >>]>>

\* C3: a run whose read or whose attribute post threw returned FAIL, sent
\* the logger a message holding the file id and the exception's message,
\* and posted no attribute.
C3_ExceptionFails ==
    \A t \in hostThreads :
        (Ran(t) /\ (ReadThrew(t) \/ PostThrew(t))) =>
            /\ thrown[t] \in Exceptions
            /\ status[t] = "FAIL"
            /\ posted[t] = <<>>
            /\ \E m \in 1 .. Len(logged[t]) :
                  /\ \E j \in 1 .. Len(logged[t][m]) :
                        logged[t][m][j] = ToString(pFile[t])
                  /\ \E j \in 1 .. Len(logged[t][m]) :
                        logged[t][m][j] = thrown[t].what

C3_Witness ==
    \E t \in hostThreads :
        /\ Ran(t) /\ ReadThrew(t) /\ Len(reads[t]) >= 2
        /\ ReturnedChunk(reads[t][1])

\* C4: run(NULL) returns FAIL, logs exactly one message, calls no method
\* of the file handle and posts no attribute.
C4_NullGuard ==
    \A t \in hostThreads :
        (Done(t) /\ pFile[t] = NULL) =>
            /\ status[t] = "FAIL"
            /\ Len(logged[t]) = 1
            /\ calls[t] = NoCalls
            /\ posted[t] = <<>>

C4_Witness ==
    \E t \in hostThreads :
        Done(t) /\ pFile[t] = NULL /\ status[t] = "FAIL" /\ Len(logged[t]) = 1

\* the run of t read an empty file: its first read returned zero
EmptyFile(t) == Ran(t) /\ reads[t] # <<>> /\ ReturnedZero(reads[t][1])

\* C5 as stated: a run on an empty file returns FAIL and posts nothing.
C5_EmptyIsError ==
    \A t \in hostThreads :
        EmptyFile(t) => status[t] = "FAIL" /\ posted[t] = <<>>

\* C5 as amended: a run on an empty file (totalBytes = 0) is not an error:
\* every bin's p is 0/0, a NaN, which fails p > 0.0, and unless the post
\* itself throws the run posts one attribute of value 0.0 and returns OK.
C5_EmptyPostsZero ==
    \A t \in hostThreads :
        EmptyFile(t) =>
            /\ totalBytes[t] = 0
            /\ entropy[t] = DZero
            /\ ~ PostThrew(t) => status[t] = "OK" /\ posted[t] = <<DZero>>
            /\ PostThrew(t) => status[t] = "FAIL" /\ posted[t] = <<>>

C5_Witness ==
    \E t \in hostThreads :
        EmptyFile(t) /\ status[t] = "OK" /\ posted[t] = <<DZero>>

\* a read of the run of t returned a negative value
NegativeRead(t) ==
    /\ t \in hostThreads
    /\ pFile[t] # NULL
    /\ reads[t] # <<>>
    /\ ReturnedNegative(LastRead(t))

\* C6: a negative return of read is an error: the run returns FAIL, posts
\* nothing, and the negative value is not added to totalBytes.
C6_NegativeIsError ==
    \A t \in hostThreads :
        NegativeRead(t) =>
            /\ totalBytes[t] = Len(Delivered(reads[t]))
            /\ pc[t] = "done" => status[t] = "FAIL" /\ posted[t] = <<>>

\* the outcome of a run on fresh locals whose reads give rs and whose post
\* throws or not
RECURSIVE AccumulateAll(_, _, _)
AccumulateAll(counts, rs, i) ==
    IF i > Len(rs) THEN counts
    ELSE LET buf == [j \in 1 .. Len(rs[i].data) |-> ToChar(rs[i].data[j])]
         IN AccumulateAll(Accumulate(counts, buf, 0, rs[i].ret), rs, i + 1)

RECURSIVE TotalOf(_, _)
TotalOf(rs, i) == IF i > Len(rs) THEN 0 ELSE rs[i].ret + TotalOf(rs, i + 1)

RunAlone(rs, postThrew) ==
    IF Threw(rs[Len(rs)]) \/ postThrew
    THEN [status |-> "FAIL", posted |-> <<>>]
    ELSE [status |-> "OK",
          posted |-> <<Entropy(AccumulateAll([i \in Bins |-> 0], rs, 1),
                               TotalOf(rs, 1))>>]

\* C7: the status and the posted attribute of a run are those of a first,
\* lone run with the same read results, whatever runs came before it on
\* the thread and whatever another thread runs meanwhile on another file.
C7_RunsIndependent ==
    \A t \in hostThreads :
        Ran(t) =>
            [status |-> status[t], posted |-> posted[t]]
                = RunAlone(reads[t], PostThrew(t))

C7_Witness ==
    \E t \in hostThreads : \E u \in hostThreads \ {t} :
        /\ Ran(t) /\ status[t] = "OK" /\ Len(Delivered(reads[t])) >= 1
        /\ pc[u] = "reduce" /\ pFile[u] # pFile[t]
        /\ Len(Delivered(reads[u])) >= 1
        /\ Delivered(reads[u]) # Delivered(reads[t])

\* C8: when the read loop has ended on a zero return, totalBytes is the
\* length of the file and every counter is the number of occurrences of
\* its byte value (0..255, unsigned) in the file, however it was chunked.
C8_HistogramOfFile ==
    \A t \in hostThreads :
        LoopEndedOnZero(t) =>
            LET file == Delivered(reads[t])
            IN /\ totalBytes[t] = Len(file)
               /\ \A b \in Bins : byteCounts[t][b] = Occurrences(b, file)

C8_Witness ==
    \E t \in hostThreads :
        /\ LoopEndedOnZero(t) /\ pc[t] = "reduce"
        /\ Len(reads[t]) = 3
        /\ reads[t][1].ret = 1 /\ reads[t][2].ret = 2
        /\ byteCounts[t][200] = 2 /\ byteCounts[t][65] = 1

\* at an iteration boundary of the read loop and where the entropy is
\* computed
AtBoundary(t) ==
    t \in hostThreads /\ pFile[t] # NULL /\ pc[t] \in {"reading", "reduce"}

\* C9: at every iteration boundary and where the entropy is computed, the
\* counters sum to totalBytes, totalBytes is non-negative and is the number
\* of bytes read so far, and no counter has decreased during the run.
C9_SumIsTotal ==
    /\ [](\A t \in Threads :
            AtBoundary(t) =>
                /\ SumCounts(byteCounts[t]) = totalBytes[t]
                /\ totalBytes[t] >= 0
                /\ totalBytes[t] = Len(Delivered(reads[t])))
    /\ [][\A t \in Threads :
            pc[t] = "reading" =>
                \A b \in Bins : byteCounts'[t][b] >= byteCounts[t][b]]_vars

\* C10: a zero return is the last read of its run, a positive return never
\* ends the loop, the status is never STOP, and a run that is reading
\* eventually returns (FairSpec has one host thread).
C10_LoopTerminates ==
    /\ [](\A t \in Threads :
            /\ \A i \in 1 .. (Len(reads[t]) - 1) : ~ ReturnedZero(reads[t][i])
            /\ (pc[t] = "reading" /\ reads[t] # <<>>)
                  => ReturnedChunk(LastRead(t))
            /\ pc[t] = "reduce" => ~ ReturnedChunk(LastRead(t))
            /\ status[t] \in {"none", "OK", "FAIL"}
            /\ pc[t] = "done" => status[t] \in {"OK", "FAIL"})
    /\ (\E t \in hostThreads : pc[t] = "reading")
          ~> (\A t \in hostThreads : pc[t] = "done")

C10_Witness ==
    \E t \in hostThreads :
        /\ LoopEndedOnZero(t) /\ pc[t] = "done" /\ status[t] = "OK"
        /\ Len(reads[t]) = 3

====
